---- MODULE Spec2Model ----
(***************************************************************************)
(* Model of src/tools/storage.ts: the two tools browser_save_storage_state *)
(* and browser_load_storage_state, run against one browser tab, one cookie *)
(* jar, per-origin local storage and a small file system.                  *)
(*                                                                         *)
(* Strings that the code compares by prefix (URLs, origins) are sequences  *)
(* of tokens, so that String.prototype.startsWith is a real prefix test.   *)
(* A JSON object is a function whose DOMAIN is the set of fields present.  *)
(***************************************************************************)
EXTENDS Integers, Sequences, FiniteSets, TLC

(* ---------------------------- bounds ----------------------------------- *)
MaxOrigins == 2
MaxEntries == 2
MaxCookies == 1
MaxOps == 2

(* ---------------------------- strings ---------------------------------- *)
OriginA == <<"https://a.com">>
OriginE == <<"https://a.com", ".evil.org">>
Blank == <<"about:blank">>
OriginStrs == {OriginA, OriginE}

\* the JavaScript value undefined, and the string it converts to
Undefined == <<"#undefined">>
StrOf(v) == IF v = Undefined THEN <<"undefined">> ELSE v

StartsWith(s, p) == Len(p) <= Len(s) /\ SubSeq(s, 1, Len(p)) = p

\* the URL a tab shows after a completed navigation to a bare origin: the
\* origin with the root path (the server is taken not to redirect)
Land(o) == o \o <<"/">>

\* the storage partition (scheme + host) of the document at a URL
PartitionOf(u) ==
  LET slashes == {n \in 1..Len(u) : u[n] = "/"}
      cut == IF slashes = {} THEN Len(u) + 1
             ELSE CHOOSE n \in slashes : \A m \in slashes : n <= m
  IN SubSeq(u, 1, cut - 1)

(* ---------------------------- JSON values ------------------------------ *)
Names == {"j", "k"}
NameOrder == <<"j", "k">>
CookieNames == {"sid"}
CookieOrder == <<"sid">>
\* a store holds 0 for a name it has no item for; values in a snapshot are
\* positions, and PriorValue is a value no snapshot of the model holds
IsSet(v) == v # 0
PriorValue == MaxEntries + MaxCookies + 1

Has(obj, f) == f \in DOMAIN obj
Get(obj, f) == IF Has(obj, f) THEN obj[f] ELSE Undefined

\* arrays of {name, value} whose value is the position in the array, so that
\* two occurrences of a name always carry different values
ItemLists(names, max) ==
  UNION {{[p \in 1..n |-> [name |-> f[p], value |-> p]] : f \in [1..n -> names]}
         : n \in 0..max}
CookieLists == ItemLists(CookieNames, MaxCookies)
\* local-storage arrays: any name first, then repetitions of the last name
LsLists ==
  {l \in ItemLists(Names, MaxEntries) :
     \A p \in 2..Len(l) : l[p].name = NameOrder[Len(NameOrder)]}

\* entries of the "origins" array: complete, without localStorage, without origin
EntryShapes ==
  {[origin |-> o, localStorage |-> l] : o \in OriginStrs, l \in LsLists}
  \cup {[origin |-> o] : o \in OriginStrs}
  \cup {[localStorage |-> l] : l \in {m \in LsLists : Len(m) = MaxEntries}}

SeqsUpTo(S, max) == UNION {[1..n -> S] : n \in 0..max}
OriginLists == SeqsUpTo(EntryShapes, MaxOrigins)

\* top-level JSON objects: complete, with an unknown field, or lacking a field
ObjectShapes ==
  {[cookies |-> c, origins |-> o] : c \in CookieLists, o \in OriginLists}
  \cup {[cookies |-> c, origins |-> o, extra |-> <<>>] :
          c \in CookieLists, o \in {m \in OriginLists : Len(m) <= 1}}
  \cup {[origins |-> o] : o \in {m \in OriginLists : Len(m) <= 1}}
  \cup {[cookies |-> c] : c \in CookieLists}
  \cup {[f \in {} |-> <<>>]}

\* what a path of the file system holds
NoFile == [kind |-> "absent"]
Garbage == [kind |-> "garbage"]
NullText == [kind |-> "null"]
ObjectText(v) == [kind |-> "object", doc |-> v]
FileShapes == {NoFile, Garbage, NullText} \cup {ObjectText(v) : v \in ObjectShapes}

(* ---------------------------- file system ----------------------------- *)
\* a path is the sequence of its components; the last one is the file name
PathOld == <<"a", "state.json">>
PathNew == <<"a", "b", "c", "state.json">>
Paths == {PathOld, PathNew}

\* path.dirname
Dirname(p) == SubSeq(p, 1, Len(p) - 1)
\* the directories fs.mkdir(dir, {recursive: true}) makes sure exist
Ancestors(d) == {SubSeq(d, 1, n) : n \in 0..Len(d)}

(* ---------------------------- browser ---------------------------------- *)
\* BrowserContext.addCookies: each cookie of the batch, in order, replaces
\* the cookie of the jar with the same key
RECURSIVE AddCookies(_, _)
AddCookies(j, cs) ==
  IF cs = <<>> THEN j
  ELSE AddCookies([j EXCEPT ![Head(cs).name] = Head(cs).value], Tail(cs))

\* SetItems with the items written from the last to the first
RECURSIVE SetItems_Backwards(_, _)
SetItems_Backwards(store, items) ==
  IF items = <<>> THEN store
  ELSE SetItems_Backwards(
         [store EXCEPT ![items[Len(items)].name] = items[Len(items)].value],
         SubSeq(items, 1, Len(items) - 1))

\* the callback of page.evaluate: localStorage.setItem for each item, in order
RECURSIVE SetItems(_, _)
SetItems(store, items) ==
  IF items = <<>> THEN store
  ELSE SetItems([store EXCEPT ![Head(items).name] = Head(items).value], Tail(items))

\* BrowserContext.storageState(): the cookies of the jar and, for each origin
\* that has local storage data, its items
StoreItems(store, order) ==
  LET present == SelectSeq(order, LAMBDA n : IsSet(store[n]))
  IN [p \in 1..Len(present) |-> [name |-> present[p], value |-> store[present[p]]]]
OriginOrder == <<OriginA, OriginE>>
StorageStateOf(j, l) ==
  LET withData == SelectSeq(OriginOrder, LAMBDA o : \E n \in Names : IsSet(l[o][n]))
  IN [cookies |-> StoreItems(j, CookieOrder),
      origins |-> [p \in 1..Len(withData) |->
                     [origin |-> withData[p],
                      localStorage |-> StoreItems(l[withData[p]], NameOrder)]]]

\* JSON.stringify(value, null, 2) and JSON.parse
Stringify(v) == ObjectText(v)
ParseThrows(t) == t.kind = "garbage"
\* the JavaScript value null, and a local that is not assigned yet
NullValue == [f \in {"#null"} |-> <<>>]
Unset == [f \in {"#unset"} |-> <<>>]
Parsed(t) == IF t.kind = "object" THEN t.doc ELSE NullValue

(* ---------------------------- state ------------------------------------ *)
VARIABLES
  files, dirs,            \* file system: content of each path, directories
  hasTab, url, jar, ls,   \* session: current tab, its URL, cookies, storage
  op, path, pc, outcome,  \* the tool call in progress and how it ended
  storageStateJson, storageState, origins, idx,   \* locals of the actions
  log,                    \* collaborator calls of the tool call in progress
  start,                  \* the session when the tool call was made
  budget, prev            \* tool calls left; how the previous call ended

vars == <<files, dirs, hasTab, url, jar, ls, op, path, pc, outcome,
          storageStateJson, storageState, origins, idx, log, start, budget, prev>>
fsVars == <<files, dirs>>
session == <<url, jar, ls>>
locals == <<storageStateJson, storageState, origins, idx>>
callVars == <<op, path, start, budget, prev>>

EmptyJar == [n \in CookieNames |-> 0]
EmptyStorage == [o \in OriginStrs |-> [n \in Names |-> 0]]
PriorJar == [n \in CookieNames |-> PriorValue]
PriorStorage == [o \in OriginStrs |-> [n \in Names |-> PriorValue]]
StartUrls == {Blank, Land(OriginA), Land(OriginE)}
NoPrev == [op |-> "none"]

InitCommon ==
  /\ dirs = Ancestors(Dirname(PathOld))
  /\ url \in StartUrls
  /\ \/ jar = EmptyJar /\ ls = EmptyStorage
     \/ jar = PriorJar /\ ls = PriorStorage
  /\ op = "none" /\ path = PathOld /\ pc = "idle" /\ outcome = "none"
  /\ storageStateJson = NoFile /\ storageState = Unset
  /\ origins = {} /\ idx = 0
  /\ log = <<>>
  /\ start = [url |-> url, jar |-> jar, ls |-> ls]
  /\ prev = NoPrev

\* one tool call, on any file
Init ==
  /\ InitCommon
  /\ \E f \in FileShapes : files = [p \in Paths |-> IF p = PathOld THEN f ELSE NoFile]
  /\ hasTab \in BOOLEAN
  /\ hasTab = FALSE => url = Blank /\ jar = EmptyJar
  /\ budget = 1

\* a sequence of tool calls, on a file that holds a complete snapshot
SnapshotShapes ==
  {[cookies |-> c, origins |-> o] :
     c \in CookieLists,
     o \in {m \in OriginLists : \A n \in 1..Len(m) : DOMAIN m[n] = {"origin", "localStorage"}}}

InitSeq ==
  /\ InitCommon
  /\ \E v \in SnapshotShapes :
       files = [p \in Paths |-> IF p = PathOld THEN ObjectText(v) ELSE NoFile]
  /\ hasTab = TRUE
  /\ budget = MaxOps

(* ---------------------------- tool calls ------------------------------- *)
Ev(call, ev) == [call |-> call, ev |-> ev, idx |-> idx, url |-> url]
Fail(kind) == pc' = "failed" /\ outcome' = kind

\* the caller invokes a tool; a call that ended is recorded in prev
Call(o, p) ==
  /\ pc \in {"idle", "done", "failed"}
  /\ budget > 0
  /\ budget' = budget - 1
  /\ op' = o /\ path' = p
  /\ pc' = "handle" /\ outcome' = "none"
  /\ storageStateJson' = NoFile /\ storageState' = Unset
  /\ origins' = {} /\ idx' = 0
  /\ log' = <<>>
  /\ start' = [url |-> url, jar |-> jar, ls |-> ls]
  /\ prev' = IF pc = "idle" THEN NoPrev
             ELSE [op |-> op, path |-> path, outcome |-> outcome, start |-> start]
  /\ UNCHANGED <<fsVars, hasTab, session>>

\* Handle without the test that there is a tab
Handle_NoTabCheck ==
  /\ pc = "handle"
  /\ pc' = "action"
  /\ UNCHANGED <<fsVars, hasTab, session, callVars, locals, log, outcome>>

\* handle: context.currentTabOrDie()
Handle ==
  /\ pc = "handle"
  /\ IF hasTab THEN pc' = "action" /\ outcome' = outcome
     ELSE Fail("SessionUnavailable")
  /\ UNCHANGED <<fsVars, hasTab, session, callVars, locals, log>>

(* ---------------------------- load ------------------------------------- *)
\* LoadReadFile with a missing file read as the text of an empty object
LoadReadFile_DefaultEmpty ==
  /\ op = "load" /\ pc = "action"
  /\ storageStateJson' = IF files[path] = NoFile THEN ObjectText([f \in {} |-> <<>>])
                         ELSE files[path]
  /\ pc' = "parse"
  /\ log' = Append(log, Ev("readFile", "return"))
  /\ UNCHANGED <<fsVars, hasTab, session, callVars, storageState, origins, idx, outcome>>

\* fs.readFile(params.path, 'utf-8')
LoadReadFile ==
  /\ op = "load" /\ pc = "action"
  /\ IF files[path] = NoFile
     THEN /\ Fail("NotFound")
          /\ log' = Append(log, Ev("readFile", "throw"))
          /\ UNCHANGED storageStateJson
     ELSE /\ storageStateJson' = files[path]
          /\ pc' = "parse" /\ outcome' = outcome
          /\ log' = Append(log, Ev("readFile", "return"))
  /\ UNCHANGED <<fsVars, hasTab, session, callVars, storageState, origins, idx>>

\* JSON.parse(storageStateJson)
LoadParse ==
  /\ op = "load" /\ pc = "parse"
  /\ IF ParseThrows(storageStateJson)
     THEN Fail("ParseError") /\ UNCHANGED storageState
     ELSE /\ storageState' = Parsed(storageStateJson)
          /\ pc' = "cookies" /\ outcome' = outcome
  /\ UNCHANGED <<fsVars, hasTab, session, callVars, storageStateJson, origins, idx, log>>

\* storageState.origins || []
OriginsOf(ss) == IF Has(ss, "origins") THEN ss.origins ELSE <<>>

\* LoadCookies without the test that the cookies field is there
LoadCookies_NoGuard ==
  /\ op = "load" /\ pc = "cookies"
  /\ IF storageState = NullValue \/ ~Has(storageState, "cookies")
     THEN Fail("TypeError") /\ UNCHANGED log
     ELSE IF Len(storageState.cookies) > 0
     THEN /\ pc' = "addCookies" /\ outcome' = outcome
          /\ log' = Append(log, Ev("addCookies", "issue"))
     ELSE /\ pc' = "collect" /\ outcome' = outcome
          /\ UNCHANGED log
  /\ UNCHANGED <<fsVars, hasTab, session, callVars, locals>>

\* LoadCookies without the test that the cookies array has an element
LoadCookies_NoLengthCheck ==
  /\ op = "load" /\ pc = "cookies"
  /\ IF storageState = NullValue
     THEN Fail("TypeError") /\ UNCHANGED log
     ELSE IF Has(storageState, "cookies")
     THEN /\ pc' = "addCookies" /\ outcome' = outcome
          /\ log' = Append(log, Ev("addCookies", "issue"))
     ELSE /\ pc' = "collect" /\ outcome' = outcome
          /\ UNCHANGED log
  /\ UNCHANGED <<fsVars, hasTab, session, callVars, locals>>

\* if (storageState.cookies && storageState.cookies.length > 0) addCookies(...)
LoadCookies ==
  /\ op = "load" /\ pc = "cookies"
  /\ IF storageState = NullValue
     THEN Fail("TypeError") /\ UNCHANGED log
     ELSE IF Has(storageState, "cookies") /\ Len(storageState.cookies) > 0
     THEN /\ pc' = "addCookies" /\ outcome' = outcome
          /\ log' = Append(log, Ev("addCookies", "issue"))
     ELSE /\ pc' = "collect" /\ outcome' = outcome
          /\ UNCHANGED log
  /\ UNCHANGED <<fsVars, hasTab, session, callVars, locals>>

LoadAddCookiesReturn ==
  /\ op = "load" /\ pc = "addCookies"
  /\ jar' = AddCookies(jar, storageState.cookies)
  /\ pc' = "collect"
  /\ log' = Append(log, Ev("addCookies", "return"))
  /\ UNCHANGED <<fsVars, hasTab, url, ls, callVars, locals, outcome>>

LoadAddCookiesThrow ==
  /\ op = "load" /\ pc = "addCookies"
  /\ Fail("CookieError")
  /\ log' = Append(log, Ev("addCookies", "throw"))
  /\ UNCHANGED <<fsVars, hasTab, session, callVars, locals>>

\* the set of origins of the snapshot, built and never read
LoadCollect ==
  /\ op = "load" /\ pc = "collect"
  /\ origins' = {Get(OriginsOf(storageState)[n], "origin") :
                   n \in 1..Len(OriginsOf(storageState))}
  /\ idx' = 1
  /\ pc' = "loop"
  /\ UNCHANGED <<fsVars, hasTab, session, callVars, storageStateJson, storageState,
                 outcome, log>>

OriginData == OriginsOf(storageState)[idx]

\* LoadOriginStep with the navigation made only from the blank page
LoadOriginStep_OnlyFromBlank ==
  /\ op = "load" /\ pc = "loop"
  /\ idx <= Len(OriginsOf(storageState))
  /\ IF url = Blank
     THEN /\ pc' = "goto"
          /\ log' = log \o <<Ev("url", "return"), Ev("goto", "issue")>>
     ELSE /\ pc' = "inject"
          /\ log' = Append(log, Ev("url", "return"))
  /\ UNCHANGED <<fsVars, hasTab, session, callVars, locals, outcome>>

\* LoadOriginStep with the navigation skipped for an origin without items
LoadOriginStep_OnlyWithItems ==
  /\ op = "load" /\ pc = "loop"
  /\ idx <= Len(OriginsOf(storageState))
  /\ IF /\ ~StartsWith(url, StrOf(Get(OriginData, "origin")))
        /\ Has(OriginData, "localStorage") /\ Len(OriginData.localStorage) > 0
     THEN /\ pc' = "goto"
          /\ log' = log \o <<Ev("url", "return"), Ev("goto", "issue")>>
     ELSE /\ pc' = "inject"
          /\ log' = Append(log, Ev("url", "return"))
  /\ UNCHANGED <<fsVars, hasTab, session, callVars, locals, outcome>>

\* LoadOriginStep with the navigation started and not awaited
LoadOriginStep_NoAwait ==
  /\ op = "load" /\ pc = "loop"
  /\ idx <= Len(OriginsOf(storageState))
  /\ pc' = "inject"
  /\ IF ~StartsWith(url, StrOf(Get(OriginData, "origin")))
     THEN log' = log \o <<Ev("url", "return"), Ev("goto", "issue")>>
     ELSE log' = Append(log, Ev("url", "return"))
  /\ UNCHANGED <<fsVars, hasTab, session, callVars, locals, outcome>>

\* one pass of the loop up to the navigation: page.url(), startsWith, page.goto
LoadOriginStep ==
  /\ op = "load" /\ pc = "loop"
  /\ idx <= Len(OriginsOf(storageState))
  /\ IF ~StartsWith(url, StrOf(Get(OriginData, "origin")))
     THEN /\ pc' = "goto"
          /\ log' = log \o <<Ev("url", "return"), Ev("goto", "issue")>>
     ELSE /\ pc' = "inject"
          /\ log' = Append(log, Ev("url", "return"))
  /\ UNCHANGED <<fsVars, hasTab, session, callVars, locals, outcome>>

\* LoadGotoReturn with the cookies applied once the tab is on the origin
LoadGotoReturn_ThenCookies ==
  /\ op = "load" /\ pc = "goto"
  /\ Get(OriginData, "origin") # Undefined
  /\ url' = Land(OriginData.origin)
  /\ pc' = "cookies"
  /\ log' = Append(log, Ev("goto", "return"))
  /\ UNCHANGED <<fsVars, hasTab, jar, ls, callVars, locals, outcome>>

\* page.goto rejects an argument that is not a string
LoadGotoReturn ==
  /\ op = "load" /\ pc = "goto"
  /\ Get(OriginData, "origin") # Undefined
  /\ url' = Land(OriginData.origin)
  /\ pc' = "inject"
  /\ log' = Append(log, Ev("goto", "return"))
  /\ UNCHANGED <<fsVars, hasTab, jar, ls, callVars, locals, outcome>>

\* LoadGotoThrow with the session put back as it was when the call was made
LoadGotoThrow_Rollback ==
  /\ op = "load" /\ pc = "goto"
  /\ Fail("NavigationError")
  /\ log' = Append(log, Ev("goto", "throw"))
  /\ url' = start.url /\ jar' = start.jar /\ ls' = start.ls
  /\ UNCHANGED <<fsVars, hasTab, callVars, locals>>

\* LoadGotoThrow with a navigation that failed tried once more
LoadGotoThrow_Retry ==
  /\ op = "load" /\ pc = "goto"
  /\ log' = Append(log, Ev("goto", "throw"))
  /\ IF \E p \in 1..Len(log) : log[p].call = "goto" /\ log[p].ev = "throw"
     THEN Fail("NavigationError")
     ELSE pc' = "loop" /\ outcome' = outcome
  /\ UNCHANGED <<fsVars, hasTab, session, callVars, locals>>

LoadGotoThrow ==
  /\ op = "load" /\ pc = "goto"
  /\ Fail("NavigationError")
  /\ log' = Append(log, Ev("goto", "throw"))
  /\ UNCHANGED <<fsVars, hasTab, session, callVars, locals>>

\* if (originData.localStorage && originData.localStorage.length > 0) evaluate
LoadInject ==
  /\ op = "load" /\ pc = "inject"
  /\ IF Has(OriginData, "localStorage") /\ Len(OriginData.localStorage) > 0
     THEN /\ pc' = "evaluate"
          /\ log' = Append(log, Ev("evaluate", "issue"))
          /\ UNCHANGED idx
     ELSE /\ pc' = "loop"
          /\ idx' = idx + 1
          /\ UNCHANGED log
  /\ UNCHANGED <<fsVars, hasTab, session, callVars, storageStateJson, storageState,
                 origins, outcome>>

\* the script runs in the document the tab shows: it writes the storage
\* partition of that document; about:blank has no local storage
LoadEvaluateReturn ==
  /\ op = "load" /\ pc = "evaluate"
  /\ PartitionOf(url) \in OriginStrs
  /\ ls' = [ls EXCEPT ![PartitionOf(url)] = SetItems(@, OriginData.localStorage)]
  /\ pc' = "loop"
  /\ idx' = idx + 1
  /\ log' = Append(log, Ev("evaluate", "return"))
  /\ UNCHANGED <<fsVars, hasTab, url, jar, callVars, storageStateJson, storageState,
                 origins, outcome>>

LoadEvaluateThrow ==
  /\ op = "load" /\ pc = "evaluate"
  /\ Fail("ScriptEvaluationError")
  /\ log' = Append(log, Ev("evaluate", "throw"))
  /\ UNCHANGED <<fsVars, hasTab, session, callVars, locals>>

\* the loop is over: the action returns its result
LoadReturn ==
  /\ op = "load" /\ pc = "loop"
  /\ idx > Len(OriginsOf(storageState))
  /\ pc' = "done" /\ outcome' = "ok"
  /\ UNCHANGED <<fsVars, hasTab, session, callVars, locals, log>>

(* ---------------------------- save ------------------------------------- *)
\* SaveStorageState with the tab taken to an origin to read its storage
SaveStorageState_Visiting ==
  /\ op = "save" /\ pc = "action"
  /\ url' = Land(OriginA)
  /\ storageState' = StorageStateOf(jar, ls)
  /\ pc' = "mkdir"
  /\ log' = Append(log, Ev("storageState", "return"))
  /\ UNCHANGED <<fsVars, hasTab, jar, ls, callVars, storageStateJson, origins, idx,
                 outcome>>

\* browserContext.storageState()
SaveStorageState ==
  /\ op = "save" /\ pc = "action"
  /\ storageState' = StorageStateOf(jar, ls)
  /\ pc' = "mkdir"
  /\ log' = Append(log, Ev("storageState", "return"))
  /\ UNCHANGED <<fsVars, hasTab, session, callVars, storageStateJson, origins, idx,
                 outcome>>

SaveStorageStateThrow ==
  /\ op = "save" /\ pc = "action"
  /\ Fail("CaptureError")
  /\ log' = Append(log, Ev("storageState", "throw"))
  /\ UNCHANGED <<fsVars, hasTab, session, callVars, locals>>

\* fs.mkdir(path.dirname(params.path), {recursive: true})
SaveMkdir ==
  /\ op = "save" /\ pc = "mkdir"
  /\ dirs' = dirs \cup Ancestors(Dirname(path))
  /\ pc' = "writeFile"
  /\ log' = Append(log, Ev("mkdir", "return"))
  /\ UNCHANGED <<files, hasTab, session, callVars, locals, outcome>>

\* SaveMkdirThrow with the error caught and the save carried on
SaveMkdirThrow_Ignored ==
  /\ op = "save" /\ pc = "mkdir"
  /\ pc' = "writeFile"
  /\ log' = Append(log, Ev("mkdir", "throw"))
  /\ UNCHANGED <<fsVars, hasTab, session, callVars, locals, outcome>>

SaveMkdirThrow ==
  /\ op = "save" /\ pc = "mkdir"
  /\ Fail("IOError")
  /\ log' = Append(log, Ev("mkdir", "throw"))
  /\ UNCHANGED <<fsVars, hasTab, session, callVars, locals>>

\* SaveWriteFile with a file that is already there left as it is
SaveWriteFile_KeepExisting ==
  /\ op = "save" /\ pc = "writeFile"
  /\ Dirname(path) \in dirs
  /\ files' = IF files[path] = NoFile
              THEN [files EXCEPT ![path] = Stringify(storageState)]
              ELSE files
  /\ pc' = "done" /\ outcome' = "ok"
  /\ log' = Append(log, Ev("writeFile", "return"))
  /\ UNCHANGED <<dirs, hasTab, session, callVars, locals>>

\* fs.writeFile(params.path, JSON.stringify(storageState, null, 2), 'utf-8')
SaveWriteFile ==
  /\ op = "save" /\ pc = "writeFile"
  /\ Dirname(path) \in dirs
  /\ files' = [files EXCEPT ![path] = Stringify(storageState)]
  /\ pc' = "done" /\ outcome' = "ok"
  /\ log' = Append(log, Ev("writeFile", "return"))
  /\ UNCHANGED <<dirs, hasTab, session, callVars, locals>>

SaveWriteFileThrow ==
  /\ op = "save" /\ pc = "writeFile"
  /\ Fail("IOError")
  /\ log' = Append(log, Ev("writeFile", "throw"))
  /\ UNCHANGED <<fsVars, hasTab, session, callVars, locals>>

(* ---------------------------- specification ---------------------------- *)
Next ==
  \/ \E o \in {"save", "load"}, p \in Paths : Call(o, p)
  \/ Handle
  \/ LoadReadFile \/ LoadParse \/ LoadCookies
  \/ LoadAddCookiesReturn \/ LoadAddCookiesThrow
  \/ LoadCollect \/ LoadOriginStep
  \/ LoadGotoReturn \/ LoadGotoThrow
  \/ LoadInject
  \/ LoadEvaluateReturn \/ LoadEvaluateThrow
  \/ LoadReturn
  \/ SaveStorageState \/ SaveStorageStateThrow
  \/ SaveMkdir \/ SaveMkdirThrow
  \/ SaveWriteFile \/ SaveWriteFileThrow

Spec == Init /\ [][Next]_vars
SpecSeq == InitSeq /\ [][Next]_vars

\* the steps of a load: the code between two awaits runs, and a collaborator
\* call that was issued returns or throws
LoadStep ==
  \/ op = "load" /\ Handle
  \/ LoadReadFile \/ LoadParse \/ LoadCookies
  \/ LoadAddCookiesReturn \/ LoadAddCookiesThrow
  \/ LoadCollect \/ LoadOriginStep
  \/ LoadGotoReturn \/ LoadGotoThrow
  \/ LoadInject
  \/ LoadEvaluateReturn \/ LoadEvaluateThrow
  \/ LoadReturn

\* one tool call, on any file, in a browser whose stores are empty: which
\* calls a load issues depends on the file and on the tab's URL only
InitLive == Init /\ jar = EmptyJar /\ ls = EmptyStorage
SpecLive == InitLive /\ [][Next]_vars /\ WF_vars(LoadStep)

(* ---------------------------- properties ---------------------------- *)
Events(call, ev) == {p \in 1..Len(log) : log[p].call = call /\ log[p].ev = ev}
Mutations == {"addCookies", "goto", "evaluate"}
\* the entry of the snapshot an event of the log belongs to
DataAt(p) == OriginsOf(storageState)[log[p].idx]
HasItems(e) == Has(e, "localStorage") /\ Len(e.localStorage) > 0
\* the value of the last item called n in an array of items
LastValue(items, n) ==
  LET at == {p \in 1..Len(items) : items[p].name = n}
  IN items[CHOOSE p \in at : \A q \in at : q <= p].value

\* C1: in a load, the cookies are added by one batch call, made before any
\* navigation and any script evaluation, and made at most once.
C1_CookiesBeforeNavigation ==
  op = "load" =>
    \A p \in Events("addCookies", "issue") :
      \A q \in 1..(p - 1) : log[q].call \notin Mutations

C1_Witness ==
  /\ op = "load" /\ pc = "done"
  /\ Events("addCookies", "return") # {}
  /\ Events("goto", "return") # {}
  /\ Events("evaluate", "return") # {}

C3_NavigateIffNotThere ==
  op = "load" =>
    /\ \A p \in Events("url", "return") :
         ~StartsWith(log[p].url, StrOf(Get(DataAt(p), "origin")))
           <=> /\ p < Len(log)
               /\ log[p + 1].call = "goto" /\ log[p + 1].ev = "issue"
               /\ log[p + 1].idx = log[p].idx
    /\ \A p \in Events("goto", "issue") :
         /\ p > 1 /\ log[p - 1].call = "url" /\ log[p - 1].idx = log[p].idx
         /\ \A q \in Events("goto", "issue") : log[q].idx = log[p].idx => q = p
    /\ \A n \in 1..Len(OriginsOf(storageState)) :
         (pc = "done" \/ (pc \in {"loop", "goto", "inject", "evaluate"} /\ n < idx))
           => \E p \in Events("url", "return") : log[p].idx = n

C3_Witness ==
  /\ op = "load" /\ pc = "done"
  /\ \E p \in Events("goto", "return") : ~HasItems(DataAt(p))
  /\ \E p \in Events("url", "return") :
       /\ HasItems(DataAt(p))
       /\ ~\E g \in Events("goto", "issue") : log[g].idx = log[p].idx

\* C4: a load issues exactly one script evaluation for an origin entry whose
\* local-storage array is non-empty and none when it is empty or absent; the
\* evaluation writes the items in array order, so that a name occurring
\* several times ends with the value of its last occurrence.
C4_OneEvaluationLastWins ==
  op = "load" =>
    /\ \A n \in 1..Len(OriginsOf(storageState)) :
         (pc = "done" \/ (pc \in {"loop", "goto", "inject", "evaluate"} /\ n < idx))
           => Cardinality({p \in Events("evaluate", "issue") : log[p].idx = n})
                = IF HasItems(OriginsOf(storageState)[n]) THEN 1 ELSE 0
    /\ \A p \in Events("evaluate", "issue") : HasItems(DataAt(p))
    /\ (Len(log) > 0 /\ log[Len(log)].call = "evaluate" /\ log[Len(log)].ev = "return")
         => \A m \in 1..Len(DataAt(Len(log)).localStorage) :
              LET items == DataAt(Len(log)).localStorage
              IN ls[PartitionOf(url)][items[m].name] = LastValue(items, items[m].name)

C4_Witness ==
  /\ op = "load" /\ pc = "done"
  /\ Len(log) > 0 /\ log[Len(log)].call = "evaluate" /\ log[Len(log)].ev = "return"
  /\ \E a, b \in 1..Len(DataAt(Len(log)).localStorage) :
       LET items == DataAt(Len(log)).localStorage
       IN a < b /\ items[a].name = items[b].name
  /\ \E n \in 1..Len(OriginsOf(storageState)) : ~HasItems(OriginsOf(storageState)[n])

\* the session that results from s when the calls of evs that returned take
\* effect one after the other
RECURSIVE Replay(_, _)
Replay(s, evs) ==
  IF evs = <<>> THEN s
  ELSE LET e == Head(evs)
           d == OriginsOf(storageState)[e.idx]
           t == IF e.ev # "return" THEN s
                ELSE IF e.call = "addCookies"
                THEN [s EXCEPT !.jar = AddCookies(@, storageState.cookies)]
                ELSE IF e.call = "goto"
                THEN [s EXCEPT !.url = Land(d.origin)]
                ELSE IF e.call = "evaluate"
                THEN [s EXCEPT !.ls[PartitionOf(s.url)] = SetItems(@, d.localStorage)]
                ELSE s
       IN Replay(t, Tail(evs))
Now == [url |-> url, jar |-> jar, ls |-> ls]
Untouched == Now = start /\ \A p \in 1..Len(log) : log[p].call \notin Mutations

\* C5: a step of a load that fails ends the load: the failure is its outcome,
\* the step that failed and the steps after it are not made, and the session
\* keeps every mutation made before the failure.
C5_FailureStops ==
  [][op = "load" =>
       /\ (pc # "failed" /\ pc' = "failed")
            => /\ outcome' \notin {"none", "ok"}
               /\ <<session, fsVars>>' = <<session, fsVars>>
       /\ pc = "failed"
            => /\ pc' = "handle" /\ log' = <<>>
               /\ <<session, fsVars>>' = <<session, fsVars>>
       /\ (pc = "failed" => Now = Replay(start, log))']_vars

C5_Witness ==
  /\ op = "load" /\ pc = "failed" /\ outcome = "NavigationError"
  /\ Events("addCookies", "return") # {} /\ jar # start.jar
  /\ Events("evaluate", "return") # {} /\ ls # start.ls
  /\ url # start.url

\* C6: a load of a path that has no file, or a file that is not JSON, fails
\* and mutates nothing: no cookie added, no navigation, no script evaluated.
C6_UnreadableFileNoMutation ==
  (op = "load" /\ files[path].kind \in {"absent", "garbage"}) =>
    /\ pc \in {"handle", "action", "parse", "failed"}
    /\ pc = "parse" => files[path].kind = "garbage"
    /\ pc = "failed" => outcome \in {"SessionUnavailable", "NotFound", "ParseError"}
    /\ Untouched

C6_Witness ==
  /\ op = "load" /\ pc = "failed" /\ outcome = "ParseError"
  /\ files[path].kind = "garbage"
  /\ jar = PriorJar /\ url # Blank

\* the first entry of an origins array that has no origin field (0: none)
FirstWithoutOrigin(os) ==
  LET bad == {n \in 1..Len(os) : ~Has(os[n], "origin")}
  IN IF bad = {} THEN 0 ELSE CHOOSE n \in bad : \A m \in bad : n <= m
LacksRequired(d) ==
  ~Has(d, "cookies") \/ ~Has(d, "origins") \/ FirstWithoutOrigin(OriginsOf(d)) # 0

C10_EmptySnapshot ==
  (op = "load" /\ hasTab
     /\ files[path] = ObjectText([cookies |-> <<>>, origins |-> <<>>])) =>
    /\ pc # "failed"
    /\ Untouched

C10_Witness ==
  /\ op = "load" /\ pc = "done" /\ outcome = "ok"
  /\ files[path] = ObjectText([cookies |-> <<>>, origins |-> <<>>])
  /\ jar = PriorJar /\ url = Land(OriginE)

\* the cookies and, per origin, the items a snapshot stands for: later
\* cookies and items replace earlier ones of the same name, and an origin
\* without items counts as an origin that is not listed
RECURSIVE ItemsPerOrigin(_, _)
ItemsPerOrigin(acc, os) ==
  IF os = <<>> THEN acc
  ELSE ItemsPerOrigin(
         [acc EXCEPT ![Head(os).origin] = SetItems(@, Get(Head(os), "localStorage"))],
         Tail(os))
Meaning(v) ==
  [jar |-> AddCookies(EmptyJar, v.cookies),
   ls |-> ItemsPerOrigin(EmptyStorage, v.origins)]
NoDuplicateOrigins(v) ==
  \A m, n \in 1..Len(v.origins) : v.origins[m].origin = v.origins[n].origin => m = n

\* C8 as stated: a snapshot without duplicate origins, loaded into a session
\* without prior state and then captured by a save, is captured as a snapshot
\* equal to it up to the order and the collisions of names.
C8_RoundTrip ==
  (/\ op = "save" /\ pc = "mkdir"
   /\ prev # NoPrev /\ prev.op = "load" /\ prev.outcome = "ok"
   /\ prev.start = [url |-> Blank, jar |-> EmptyJar, ls |-> EmptyStorage]
   /\ NoDuplicateOrigins(files[prev.path].doc))
    => Meaning(storageState) = Meaning(files[prev.path].doc)

\* C9 as stated: a load of the same file made right after a successful load
\* ends with the session (cookie jar, local storage of every origin, URL of
\* the tab) that the first load ended with.
C9_Idempotent ==
  (/\ op = "load" /\ pc = "done"
   /\ prev # NoPrev /\ prev.op = "load" /\ prev.outcome = "ok" /\ prev.path = path)
    => Now = start

\* C11: a save, whether it succeeds or fails, leaves the session as it was:
\* the cookie jar, the URL of the tab and the local storage of every origin.
C11_SaveReadOnly ==
  op = "save" => Now = start

C11_Witness ==
  /\ op = "save" /\ pc = "done"
  /\ jar = PriorJar /\ ls = PriorStorage /\ url = Land(OriginE)
  /\ files[path] = Stringify(StorageStateOf(PriorJar, PriorStorage))

\* C12: a save that succeeds has made every directory above the path exist,
\* whether or not they existed, and leaves at the path the encoding of the
\* snapshot it captured, whatever the path held before; the write is never
\* attempted in a directory that does not exist.
C12_SaveWritesSnapshot ==
  op = "save" =>
    /\ pc \in {"writeFile", "done"} => Ancestors(Dirname(path)) \subseteq dirs
    /\ pc = "done" =>
         /\ outcome = "ok"
         /\ files[path] = Stringify(storageState)
         /\ storageState = StorageStateOf(start.jar, start.ls)

C12_Witness ==
  /\ op = "save" /\ pc = "done" /\ path = PathNew
  /\ Dirname(PathNew) \in dirs /\ Dirname(Dirname(PathNew)) \in dirs
  /\ files[PathNew].kind = "object" /\ Len(files[PathNew].doc.origins) = 2

\* C13: without an active tab a save and a load fail with the
\* session-unavailable error before anything else: no file is read, no
\* directory or file is made or written, the session is not touched.
C13_NoTabFailsFirst ==
  (~hasTab /\ op # "none") =>
    /\ pc \in {"handle", "failed"}
    /\ pc = "failed" => outcome = "SessionUnavailable"
    /\ log = <<>>
    /\ Now = start
    /\ dirs = Ancestors(Dirname(PathOld)) /\ files[PathNew] = NoFile

C13_Witness ==
  /\ ~hasTab /\ pc = "failed" /\ outcome = "SessionUnavailable"
  /\ op = "save" /\ path = PathNew
  /\ files[PathOld].kind = "object"

\* C14: a load handles the origin entries one at a time, in the order of
\* the snapshot: a call is issued only when every call issued before it has
\* returned, no call for an entry is issued before the calls of the entries
\* before it, and the navigation of an entry returns before its injection
\* is issued.
C14_OneOriginAtATime ==
  op = "load" =>
    /\ \A p, q \in 1..Len(log) : p < q => log[p].idx <= log[q].idx
    /\ \A p \in 1..Len(log) :
         log[p].ev = "issue" =>
           IF p = Len(log) THEN pc = log[p].call
           ELSE /\ log[p + 1].call = log[p].call /\ log[p + 1].idx = log[p].idx
                /\ log[p + 1].ev \in {"return", "throw"}
                /\ log[p + 1].ev = "throw" => p + 1 = Len(log)
    /\ \A p \in Events("goto", "issue"), q \in Events("evaluate", "issue") :
         log[p].idx = log[q].idx => p + 1 < q /\ log[p + 1].ev = "return"

C14_Witness ==
  /\ op = "load" /\ pc = "done"
  /\ \A n \in 1..2 :
       /\ \E p \in Events("goto", "return") : log[p].idx = n
       /\ \E p \in Events("evaluate", "return") : log[p].idx = n

\* C15 as stated: after a load that succeeds on a snapshot whose origins are
\* distinct, every item of an entry is stored in the partition of the
\* entry's own origin, and no evaluation wrote into the partition of another
\* origin, also when an origin string is a prefix of another origin or of
\* the URL the tab started on.
C15_OwnPartition ==
  (/\ op = "load" /\ pc = "done"
   /\ \A m, n \in 1..Len(OriginsOf(storageState)) :
        OriginsOf(storageState)[m].origin = OriginsOf(storageState)[n].origin => m = n)
    => /\ \A p \in Events("evaluate", "return") :
            PartitionOf(log[p].url) = DataAt(p).origin
       /\ \A n \in 1..Len(OriginsOf(storageState)) :
            LET e == OriginsOf(storageState)[n]
            IN HasItems(e) =>
                 \A m \in 1..Len(e.localStorage) :
                   ls[e.origin][e.localStorage[m].name]
                     = LastValue(e.localStorage, e.localStorage[m].name)

\* the store that results from store when the items of the entries of os
\* whose origin is o are written entry after entry
RECURSIVE EntriesInto(_, _, _)
EntriesInto(store, os, o) ==
  IF os = <<>> THEN store
  ELSE EntriesInto(
         IF Head(os).origin = o /\ HasItems(Head(os))
         THEN SetItems(store, Head(os).localStorage) ELSE store,
         Tail(os), o)
Repeated(os) ==
  {o \in OriginStrs : \E m, n \in 1..Len(os) :
     m # n /\ Get(os[m], "origin") = o /\ Get(os[n], "origin") = o}

\* C16 as stated: when several entries of the snapshot have the same origin
\* string, a load that succeeds has applied them in the order of the
\* snapshot: the local storage of that origin holds, for a name of several of
\* them, the value of the last one, and still holds the names that only an
\* earlier one has.
C16_DuplicateOriginsInOrder ==
  (op = "load" /\ pc = "done") =>
    \A o \in Repeated(OriginsOf(storageState)) :
      ls[o] = EntriesInto(start.ls[o], OriginsOf(storageState), o)

SaveCalls == <<"storageState", "mkdir", "writeFile">>
\* the calls of a save are made in the order of SaveCalls, each after the
\* one before it returned, and a call that throws is the last one
SaveLogInOrder ==
  /\ Len(log) <= Len(SaveCalls)
  /\ \A p \in 1..Len(log) :
       /\ log[p].call = SaveCalls[p]
       /\ p < Len(log) => log[p].ev = "return"
       /\ log[p].ev = "throw" => pc = "failed"

\* C17: a save captures the session, then makes the directories, then writes
\* the file; when the capture or the making of the directories fails, no
\* file is written and the file the path held keeps its content.
C17_CaptureMkdirWrite ==
  [][op = "save" =>
       /\ (op' = "save" => SaveLogInOrder')
       /\ dirs' # dirs =>
            /\ Len(log) = 1 /\ log' = Append(log, Ev("mkdir", "return"))
       /\ files' # files =>
            /\ Len(log) = 2 /\ log' = Append(log, Ev("writeFile", "return"))
       /\ pc = "failed" => UNCHANGED fsVars]_vars

C17_Witness ==
  /\ op = "save" /\ pc = "failed" /\ outcome = "IOError"
  /\ Len(log) = 2 /\ log[2].call = "mkdir" /\ log[2].ev = "throw"
  /\ path = PathOld /\ files[PathOld] = Garbage

\* C18: when every collaborator call returns or throws, a load ends, done or
\* failed, and it has issued at most one cookie batch and, for each origin
\* entry of the snapshot, at most one navigation and one script evaluation.
C18_LoadEnds ==
  /\ [](op = "load" =>
          /\ Cardinality(Events("addCookies", "issue")) <= 1
          /\ \A c \in {"goto", "evaluate"} :
               /\ \A p \in Events(c, "issue") :
                    log[p].idx \in 1..Len(OriginsOf(storageState))
               /\ \A p, q \in Events(c, "issue") : log[p].idx = log[q].idx => p = q)
  /\ (op = "load" /\ pc = "handle") ~> (pc \in {"done", "failed"})

C18_Witness ==
  /\ op = "load" /\ pc = "done"
  /\ Cardinality(Events("addCookies", "issue")) = 1
  /\ Cardinality(Events("goto", "issue")) = Len(OriginsOf(storageState))
  /\ Cardinality(Events("evaluate", "issue")) = Len(OriginsOf(storageState))
  /\ Len(OriginsOf(storageState)) >= 2

====
